---- MODULE Spec2Model ----
(***************************************************************************)
(* Model of the slot-synchronised wait loops of                            *)
(* simulators/eth2/common/testnet/running_testnet.go: one controller per   *)
(* wait call, a ticker, a cancellable context, and one probe goroutine     *)
(* per running node and tick, joined by a WaitGroup.                       *)
(***************************************************************************)
EXTENDS Integers, Sequences, FiniteSets, TLC

\* ---------------------------------------------------------------- bounds
MaxNodes == 2
MaxErrBudget == 2
MaxClock == 5
MaxGenesisAge == 4
MaxGenesisDelay == 1
MaxLag == 2
MaxMissedSlots == 2
MaxEpoch == 1
MaxSlotsArg == 2
MaxRegistryLen == 4
MaxTimeoutArg == 4
MaxProbeSlot == 3
MaxValidators == 2
MaxBalance == 3
SECONDS_PER_SLOT == 2
SLOTS_PER_EPOCH == 2

\* ---------------------------------------------------------------- values
Variants ==
    {"WaitSlots", "WaitForFork", "WaitForFinality", "WaitForSync",
     "WaitForExecutionFinality", "WaitForCurrentEpochFinalization",
     "WaitForExecutionPayload"}

MAX_PARTICIPATION_SCORE == 7
slotsTolerance == 2
BASE_REWARD_FACTOR == 64
HYSTERESIS_QUOTIENT == 4
BASE_REWARDS_PER_EPOCH == 4

EMPTY_TREE_ROOT == 0
EMPTY_EXEC_HASH == 0
EmptyCheckpoint == [epoch |-> 0, root |-> 0]

Roots == 0..2
Hashes == 0..1
Checkpoints ==
    {EmptyCheckpoint} \cup {[epoch |-> e, root |-> 1] : e \in 0..MaxEpoch}
Forks == {"phase0", "altair"}
TargetFork == "altair"

NilValue == [kind |-> "nil", cp |-> EmptyCheckpoint, id |-> 0]
CheckpointValue(cp) == [kind |-> "checkpoint", cp |-> cp, id |-> 0]
HashValue(h) == [kind |-> "hash", cp |-> EmptyCheckpoint, id |-> h]
RootValue(r) == [kind |-> "root", cp |-> EmptyCheckpoint, id |-> r]

NoNode == 0 - 1
NoReturn == [kind |-> "none", node |-> NoNode, val |-> NilValue]

VARIABLES
    variant,            \* which wait function was called
    runningNodes,       \* number of running verification nodes
    maxConsecutiveErrorsOnWaits,
    slots,              \* WaitSlotsWithMaxMissedSlots: slots argument
    maxMissedSlots,     \* WaitSlotsWithMaxMissedSlots: maxMissedSlots argument
    genesisTime,
    epochToBeFinalized, \* WaitForCurrentEpochFinalization
    clock,              \* wall clock, seconds since the ticker was created
    tickPending,        \* a value is buffered in timer.C
    pendingTim,         \* the time carried by the buffered tick
    cancelled,          \* ctx.Done() is closed
    ctrl,               \* controller position: "select", "wait", "returned"
    clockSlot,          \* clockSlot captured by the probes of the tick
    results,            \* resultsArr: node index -> result
    probe,              \* goroutine of node i: "idle", "running", "returned"
    heads,              \* WaitForSync: contents of the heads channel
    slotsPassed,
    ttdReached,
    ret,                \* what the wait call returned
    obs,                \* what the probe of node i observed in this tick
    errRun,             \* consecutive ticks in which node i's probe set r.err
    cancelInFlight,     \* ctx was cancelled while probes were running
    okTicks,            \* WaitSlots: evaluated ticks whose CheckError was nil
    tdQuery,            \* how the total-difficulty query of the last tick went
    participation,      \* calcHealth: the participation registry passed
    health,             \* calcHealth: the value returned
    timing,             \* timeout helpers: the preset and the argument
    timeouts,           \* timeout helpers: the durations computed, seconds
    balances,           \* legacyCalcHealth: the balances before and after
    legacyHealth,       \* legacyCalcHealth: how the call ended
    probeCall,          \* one probe taken alone: what it is called with
    probeOut            \* one probe taken alone: the slot it leaves behind

vars == <<variant, runningNodes, maxConsecutiveErrorsOnWaits, slots,
          maxMissedSlots, genesisTime, epochToBeFinalized, clock, tickPending,
          pendingTim, cancelled, ctrl, clockSlot, results, probe, heads,
          slotsPassed, ttdReached, ret, obs, errRun, cancelInFlight,
          okTicks, tdQuery, participation, health, timing, timeouts, balances, legacyHealth,
          probeCall, probeOut>>

healthVars == <<participation, health, balances, legacyHealth>>
timeoutVars == <<timing, timeouts>>
probeVars == <<probeCall, probeOut>>

\* The variables of the helper functions and of the probe taken alone,
\* which no wait loop touches.
helperVars == <<healthVars, timeoutVars, probeVars>>

Nodes == 0..(runningNodes - 1)

\* ------------------------------------------------------- slot arithmetic
TimeToSlot(t, genesis) ==
    IF t < genesis THEN 0 ELSE (t - genesis) \div SECONDS_PER_SLOT

SlotToEpoch(slot) == slot \div SLOTS_PER_EPOCH

\* ---------------------------------------------------------------- health
\* A float64 is kept as an exact fraction; den = 0 is NaN (0/0).
NaN == [num |-> 0, den |-> 0]
Float(n) == [num |-> n, den |-> 1]
FloatDiv(a, b) ==
    IF a.den = 0 \/ b.den = 0 \/ b.num = 0 THEN NaN
    ELSE [num |-> a.num * b.den, den |-> a.den * b.num]

ParticipationFlags == 0..MAX_PARTICIPATION_SCORE
Registries == UNION {[1..n -> ParticipationFlags] : n \in 0..MaxRegistryLen}

\* for _, p := range p { sum += int(p) }
RECURSIVE SumRange(_, _)
SumRange(p, sum) ==
    IF p = <<>> THEN sum ELSE SumRange(Tail(p), sum + Head(p))

\* Variant of calcHealth: the mean is taken over the non-zero entries.
calcHealthOfParticipants(p) ==
    LET sum == SumRange(p, 0)
        avg == FloatDiv(Float(sum),
                        Float(Cardinality({i \in DOMAIN p : p[i] # 0})))
    IN  FloatDiv(avg, Float(MAX_PARTICIPATION_SCORE))

calcHealth(p) ==
    LET sum == SumRange(p, 0)
        avg == FloatDiv(Float(sum), Float(Len(p)))
    IN  FloatDiv(avg, Float(MAX_PARTICIPATION_SCORE))

NoHealth == [computed |-> FALSE, value |-> NaN]

\* ----------------------------------------------------------- legacy health
\* Balances of the same validators at the start of two consecutive epochs.
BalanceLists == UNION {[1..n -> 0..MaxBalance] : n \in 1..MaxValidators}
BalancePairs ==
    {b \in [before : BalanceLists, after : BalanceLists] :
        Len(b.before) = Len(b.after)}
NoBalances == [before |-> <<>>, after |-> <<>>]

\* math.IntegerSquareRootPrysm: the largest r with r * r <= n
IntegerSquareRoot(n) ==
    CHOOSE r \in 0..n : r * r <= n /\ (r + 1) * (r + 1) > n

\* How a call of legacyCalcHealth ends: with a run-time panic, or with the
\* float64 quotient of two uint64 values.  The uint64 difference
\* avg_after - avg_before stands for 2^64 + diff when wrapped is set; a zero
\* divisor makes the quotient NaN (0/0) or +Inf.
NoLegacyHealth ==
    [computed |-> FALSE, kind |-> "none", diff |-> 0, wrapped |-> FALSE,
     divisor |-> 0]
LegacyPanic(why) ==
    [computed |-> TRUE, kind |-> why, diff |-> 0, wrapped |-> FALSE,
     divisor |-> 0]

legacyCalcHealth(before, after) ==
    LET sum_before == SumRange(before, 0)
        sum_after == SumRange(after, 0)
        count == Len(before)
        avg_before == sum_before \div count
        avg_after == sum_after \div count
        root == IntegerSquareRoot(sum_before)
    IN  IF root = 0 THEN LegacyPanic("integer divide by zero")
        ELSE LET reward == ((avg_before * BASE_REWARD_FACTOR) \div root)
                               \div HYSTERESIS_QUOTIENT
                 divisor == reward * BASE_REWARDS_PER_EPOCH
                 diff == avg_after - avg_before
             IN  [computed |-> TRUE,
                  kind |-> IF divisor # 0 THEN "finite"
                           ELSE IF diff = 0 THEN "NaN" ELSE "+Inf",
                  diff |-> diff, wrapped |-> avg_after < avg_before,
                  divisor |-> divisor]

\* ------------------------------------------------------- timeout helpers
\* Durations are in seconds (units of time.Second).
Presets ==
    {[SLOTS_PER_EPOCH |-> 32, SECONDS_PER_SLOT |-> 12],
     [SLOTS_PER_EPOCH |-> 8, SECONDS_PER_SLOT |-> 6],
     [SLOTS_PER_EPOCH |-> SLOTS_PER_EPOCH,
      SECONDS_PER_SLOT |-> SECONDS_PER_SLOT]}

\* Variant of EpochTimeoutContext: the tolerance is added as seconds.
EpochTimeoutSecondsTolerance(spec, epochs) ==
    (spec.SLOTS_PER_EPOCH * epochs) * spec.SECONDS_PER_SLOT + slotsTolerance

EpochTimeoutContext(spec, epochs) ==
    ((spec.SLOTS_PER_EPOCH * epochs) + slotsTolerance) * spec.SECONDS_PER_SLOT

SlotTimeoutContext(spec, n) == (n + slotsTolerance) * spec.SECONDS_PER_SLOT

EpochsTimeout(spec, epochs) ==
    (spec.SLOTS_PER_EPOCH * epochs) * spec.SECONDS_PER_SLOT

SlotsTimeout(spec, n) == n * spec.SECONDS_PER_SLOT

NotComputed == 0 - 1
NoTiming == [spec |-> [SLOTS_PER_EPOCH |-> 0, SECONDS_PER_SLOT |-> 0], n |-> 0]
NoTimeouts ==
    [EpochTimeoutContext |-> NotComputed, SlotTimeoutContext |-> NotComputed,
     EpochsTimeout |-> NotComputed, SlotsTimeout |-> NotComputed]

HealthIdle ==
    /\ participation = <<>>
    /\ health = NoHealth
    /\ balances = NoBalances
    /\ legacyHealth = NoLegacyHealth

TimeoutsIdle ==
    /\ timing = NoTiming
    /\ timeouts = NoTimeouts

\* ------------------------------------------------------------ result set
EmptyResult ==
    [msg |-> "", err |-> "nil", fatal |-> "nil", done |-> FALSE,
     result |-> NilValue, consecutiveErrors |-> 0]

makeResults(n) == [i \in 0..(n - 1) |-> EmptyResult]

ClearResult(r) ==
    [r EXCEPT !.msg = "", !.err = "nil", !.fatal = "nil", !.done = FALSE,
              !.result = NilValue]

Clear(rs) == [i \in DOMAIN rs |-> ClearResult(rs[i])]

Record(r) ==
    [r EXCEPT !.consecutiveErrors =
        IF r.err # "nil" THEN r.consecutiveErrors + 1 ELSE 0]

RecordAll(rs) == [i \in DOMAIN rs |-> Record(rs[i])]

MinOf(S) == CHOOSE x \in S : \A y \in S : x <= y

Unresponsive(r, maxErr) == r.consecutiveErrors >= maxErr

CheckError(rs, maxErr) ==
    LET fatals == {i \in DOMAIN rs : rs[i].fatal # "nil"}
        spent == {i \in DOMAIN rs : Unresponsive(rs[i], maxErr)}
    IN  IF fatals # {}
        THEN [kind |-> "fatal", node |-> MinOf(fatals)]
        ELSE IF spent # {}
        THEN [kind |-> "unresponsive", node |-> MinOf(spent)]
        ELSE [kind |-> "nil", node |-> NoNode]

AllDone(rs) == DOMAIN rs # {} /\ \A i \in DOMAIN rs : rs[i].done

\* ------------------------------------------------------ probe inputs
\* What the beacon node answers to the queries of one probe.
Only(v, vs, full, default) == IF v \in vs THEN full ELSE {default}

\* Head slots a node reports: up to MaxLag behind the clock, or one ahead.
HeadSlots(cs) == {s \in 0..(cs + 1) : cs - s <= MaxLag}

\* The wait functions whose probes call GetHealth for the status message.
HealthWaits == {"WaitForFinality", "WaitForSync", "WaitForExecutionPayload"}

AllProbeInputs(v, cs) ==
    [cpErr : Only(v, Variants \ {"WaitForExecutionPayload"}, BOOLEAN, FALSE),
     blkErr : BOOLEAN,
     slot : Only(v, Variants \ {"WaitForSync"}, HeadSlots(cs), 0),
     version : Only(v, {"WaitForFork"}, Forks, "phase0"),
     root : Only(v, {"WaitForSync"}, Roots, 1),
     fin : IF v = "WaitForSync"
           THEN {EmptyCheckpoint, [epoch |-> 0, root |-> 1]}
           ELSE Only(v, {"WaitForFinality", "WaitForExecutionFinality",
                         "WaitForCurrentEpochFinalization"},
                     Checkpoints, EmptyCheckpoint),
     exec : Only(v, {"WaitForExecutionPayload"}, Hashes, EMPTY_EXEC_HASH),
     finBlkErr : Only(v, {"WaitForExecutionFinality"}, BOOLEAN, FALSE),
     finExec : Only(v, {"WaitForExecutionFinality"}, Hashes, EMPTY_EXEC_HASH),
     healthErr : Only(v, HealthWaits, BOOLEAN, FALSE)]

DefaultInput ==
    [cpErr |-> FALSE, blkErr |-> FALSE, slot |-> 0, version |-> "phase0",
     root |-> 1, fin |-> EmptyCheckpoint, exec |-> EMPTY_EXEC_HASH,
     finBlkErr |-> FALSE, finExec |-> EMPTY_EXEC_HASH, healthErr |-> FALSE]

\* The answers of a query the probe never gets to make do not matter: one
\* representative is kept for each.
Canonical(in) ==
    /\ in.blkErr => in = [DefaultInput EXCEPT !.blkErr = TRUE, !.slot = in.slot]
    /\ in.cpErr => in = [DefaultInput EXCEPT !.cpErr = TRUE, !.slot = in.slot]
    /\ in.fin = EmptyCheckpoint =>
           in.finBlkErr = FALSE /\ in.finExec = EMPTY_EXEC_HASH
    /\ in.finBlkErr => in.finExec = EMPTY_EXEC_HASH

\* Every answer a node can give to one probe.
AnyProbeInputs(v, cs) == {in \in AllProbeInputs(v, cs) : Canonical(in)}

\* The probe got the head block, so it has a head slot to compare.
HeadSlotSeen(v, in) ==
    IF v \in {"WaitSlots", "WaitForFork", "WaitForFinality"}
    THEN ~in.cpErr /\ ~in.blkErr
    ELSE v # "WaitForSync" /\ ~in.blkErr

\* A probe that finds its node an epoch behind returns at once: what the
\* queries after the comparison would have answered does not matter either.
CutShortByLag(v, in, cs) ==
    /\ v \notin {"WaitSlots", "WaitForSync"}
    /\ HeadSlotSeen(v, in)
    /\ cs > in.slot /\ (cs - in.slot) >= SLOTS_PER_EPOCH

\* Answers that lead a probe of the wait loop to the same slot contents are
\* represented by one of them: a head slot that is not looked at or not an
\* epoch behind by the clock slot, a head slot an epoch or more behind by
\* the slot exactly an epoch behind.  WaitSlots, whose threshold is an
\* argument, keeps every head slot.
Representative(v, in, cs) ==
    /\ (v # "WaitForSync" /\ ~HeadSlotSeen(v, in)) => in.slot = cs
    /\ CutShortByLag(v, in, cs) =>
           in = [DefaultInput EXCEPT !.slot = cs - SLOTS_PER_EPOCH]
    /\ (v \notin {"WaitSlots", "WaitForSync"} /\ HeadSlotSeen(v, in)
           /\ ~CutShortByLag(v, in, cs)) => in.slot = cs

ProbeInputs(v, cs) ==
    {in \in AnyProbeInputs(v, cs) : Representative(v, in, cs)}

NoHead == 0 - 1
NoObs ==
    [probed |-> FALSE, fin |-> EmptyCheckpoint, head |-> NoHead,
     lag |-> "no", exec |-> EMPTY_EXEC_HASH, version |-> "none"]

\* ------------------------------------------------------------- probes
\* Each probe maps the cleared slot r of its node to the slot it leaves
\* behind when the goroutine returns.
\* Variant of Lagging: the threshold itself is still tolerated.
LaggingStrictly(cs, slot, threshold) == cs > slot /\ (cs - slot) > threshold

\* Variant of Lagging: without the guard the uint64 difference of a head
\* ahead of the clock wraps to a value above every threshold.
LaggingUnguarded(cs, slot, threshold) ==
    cs < slot \/ (cs - slot) >= threshold

Lagging(cs, slot, threshold) == cs > slot /\ (cs - slot) >= threshold

\* Variant of SetErr: the status message is written along with the error.
SetErrWithMsg(r) == [r EXCEPT !.err = "query failed", !.msg = "status"]

SetErr(r) == [r EXCEPT !.err = "query failed"]
SetFatal(r, e) == [r EXCEPT !.fatal = e]
\* Variant of SetDone: r.result is not assigned.
SetDoneWithoutResult(r, v) == [r EXCEPT !.msg = "status", !.done = TRUE]

SetDone(r, v) == [r EXCEPT !.msg = "status", !.done = TRUE, !.result = v]
SetMsg(r) == [r EXCEPT !.msg = "status"]

ProbeWaitSlots(r, in, cs, threshold) ==
    IF in.cpErr THEN SetErr(r)
    ELSE IF in.blkErr THEN SetErr(r)
    ELSE IF Lagging(cs, in.slot, threshold)
    THEN SetFatal(r, "missed more slots than allowed")
    ELSE SetMsg(r)

\* Variant of ProbeWaitForFork: done whatever the version of the head block.
ProbeWaitForAnyFork(r, in, cs) ==
    IF in.cpErr THEN SetErr(r)
    ELSE IF in.blkErr THEN SetErr(r)
    ELSE IF Lagging(cs, in.slot, SLOTS_PER_EPOCH)
    THEN SetFatal(r, "unable to sync for an entire epoch")
    ELSE [SetMsg(r) EXCEPT !.done = TRUE]

ProbeWaitForFork(r, in, cs) ==
    IF in.cpErr THEN SetErr(r)
    ELSE IF in.blkErr THEN SetErr(r)
    ELSE IF Lagging(cs, in.slot, SLOTS_PER_EPOCH)
    THEN SetFatal(r, "unable to sync for an entire epoch")
    ELSE IF in.version = TargetFork
    THEN [SetMsg(r) EXCEPT !.done = TRUE]
    ELSE SetMsg(r)

\* GetHealth as the probes see it: a score, or 0 and an error.
GetHealth(in) ==
    IF in.healthErr THEN [health |-> 0, err |-> "failed to retrieve state"]
    ELSE [health |-> 1, err |-> "nil"]

\* health, _ := GetHealth(...): the score goes into the status message, the
\* error nowhere.
StatusWithHealth(r, h) == SetMsg(r)

FinalityDone(in) == in.fin # EmptyCheckpoint

\* Variant of ProbeWaitForFinality: a failed health computation is reported
\* as the error of the node.
ProbeWaitForFinalityHealthChecked(r, in, cs) ==
    IF in.cpErr THEN SetErr(r)
    ELSE IF in.blkErr THEN SetErr(r)
    ELSE IF Lagging(cs, in.slot, SLOTS_PER_EPOCH)
    THEN SetFatal(r, "unable to sync for an entire epoch")
    ELSE IF GetHealth(in).err # "nil" THEN SetErr(r)
    ELSE IF FinalityDone(in)
    THEN SetDone(r, CheckpointValue(in.fin))
    ELSE SetMsg(r)

ProbeWaitForFinality(r, in, cs) ==
    IF in.cpErr THEN SetErr(r)
    ELSE IF in.blkErr THEN SetErr(r)
    ELSE IF Lagging(cs, in.slot, SLOTS_PER_EPOCH)
    THEN SetFatal(r, "unable to sync for an entire epoch")
    ELSE LET m == StatusWithHealth(r, GetHealth(in).health)
         IN  IF FinalityDone(in)
             THEN SetDone(m, CheckpointValue(in.fin))
             ELSE m

ProbeWaitForSync(r, in) ==
    IF in.cpErr THEN SetErr(r)
    ELSE IF in.blkErr THEN SetErr(r)
    ELSE LET m == StatusWithHealth(r, GetHealth(in).health)
         IN  IF in.fin # EmptyCheckpoint
             THEN SetDone(m, CheckpointValue(in.fin))
             ELSE m

\* heads <- versionedBlock.Root(): the probe sends once both queries succeeded
SendsHead(in) == ~in.cpErr /\ ~in.blkErr

\* Variant of ProbeWaitForExecutionFinality: the execution hash of the
\* finalized block is not looked at.
ProbeFinalityWithoutExecution(r, in, cs) ==
    IF in.blkErr THEN SetErr(r)
    ELSE IF Lagging(cs, in.slot, SLOTS_PER_EPOCH)
    THEN SetFatal(r, "unable to sync for an entire epoch")
    ELSE IF in.cpErr THEN SetErr(r)
    ELSE IF in.fin # EmptyCheckpoint /\ in.finBlkErr
    THEN SetErr(r)
    ELSE IF in.fin # EmptyCheckpoint
    THEN SetDone(r, CheckpointValue(in.fin))
    ELSE SetMsg(r)

ProbeWaitForExecutionFinality(r, in, cs) ==
    IF in.blkErr THEN SetErr(r)
    ELSE IF Lagging(cs, in.slot, SLOTS_PER_EPOCH)
    THEN SetFatal(r, "unable to sync for an entire epoch")
    ELSE IF in.cpErr THEN SetErr(r)
    ELSE IF in.fin # EmptyCheckpoint /\ in.finBlkErr
    THEN SetErr(r)
    ELSE LET finalizedExecution ==
                 IF in.fin # EmptyCheckpoint THEN in.finExec
                 ELSE EMPTY_EXEC_HASH
         IN  IF finalizedExecution # EMPTY_EXEC_HASH
             THEN SetDone(r, CheckpointValue(in.fin))
             ELSE SetMsg(r)

\* Variant of ProbeWaitForCurrentEpochFinalization: any finalized
\* checkpoint will do.
ProbeFinalizationOfAnyEpoch(r, in, cs, target) ==
    IF in.blkErr THEN SetErr(r)
    ELSE IF Lagging(cs, in.slot, SLOTS_PER_EPOCH)
    THEN SetFatal(r, "unable to sync for an entire epoch")
    ELSE IF in.cpErr THEN SetErr(r)
    ELSE IF in.fin # EmptyCheckpoint
    THEN SetDone(r, CheckpointValue(in.fin))
    ELSE SetMsg(r)

ProbeWaitForCurrentEpochFinalization(r, in, cs, target) ==
    IF in.blkErr THEN SetErr(r)
    ELSE IF Lagging(cs, in.slot, SLOTS_PER_EPOCH)
    THEN SetFatal(r, "unable to sync for an entire epoch")
    ELSE IF in.cpErr THEN SetErr(r)
    ELSE IF in.fin # EmptyCheckpoint /\ in.fin.epoch >= target
    THEN SetDone(r, CheckpointValue(in.fin))
    ELSE SetMsg(r)

ProbeWaitForExecutionPayload(r, in, cs) ==
    IF in.blkErr THEN SetErr(r)
    ELSE IF Lagging(cs, in.slot, SLOTS_PER_EPOCH)
    THEN SetFatal(r, "unable to sync for an entire epoch")
    ELSE LET m == StatusWithHealth(r, GetHealth(in).health)
         IN  IF in.exec # EMPTY_EXEC_HASH
             THEN SetDone(m, HashValue(in.exec))
             ELSE m

RunProbe(v, r, in, cs, threshold, target) ==
    CASE v = "WaitSlots" -> ProbeWaitSlots(r, in, cs, threshold)
      [] v = "WaitForFork" -> ProbeWaitForFork(r, in, cs)
      [] v = "WaitForFinality" -> ProbeWaitForFinality(r, in, cs)
      [] v = "WaitForSync" -> ProbeWaitForSync(r, in)
      [] v = "WaitForExecutionFinality" ->
             ProbeWaitForExecutionFinality(r, in, cs)
      [] v = "WaitForCurrentEpochFinalization" ->
             ProbeWaitForCurrentEpochFinalization(r, in, cs, target)
      [] v = "WaitForExecutionPayload" ->
             ProbeWaitForExecutionPayload(r, in, cs)

\* The threshold of the head-lag rule of each wait function.
LagThreshold(v, maxMissed) ==
    IF v = "WaitSlots" THEN maxMissed ELSE SLOTS_PER_EPOCH

\* How the head slot the probe saw stands to the clock slot: "behind" when
\* the difference reaches the threshold and the clock is ahead of the head,
\* "level" when the difference reaches the threshold with the head at the
\* clock slot, "no" when the difference is below the threshold or no head
\* slot was seen.
LagSeen(v, in, cs, threshold) ==
    IF HeadSlotSeen(v, in) /\ cs - in.slot >= threshold
    THEN IF cs > in.slot THEN "behind" ELSE "level"
    ELSE "no"

\* What the probe of a node reported in this tick (history of the tick):
\* the finalized checkpoint it got to examine, the head it sent, how its
\* head slot stood to the clock, the execution hash and the fork version it
\* got to examine.
Observed(v, in, r, cs, threshold) ==
    LET examined == r.err = "nil" /\ r.fatal = "nil"
    IN  [probed |-> TRUE,
         fin |-> IF examined THEN in.fin ELSE EmptyCheckpoint,
         head |-> IF v = "WaitForSync" /\ SendsHead(in) THEN in.root
                  ELSE NoHead,
         lag |-> LagSeen(v, in, cs, threshold),
         exec |-> IF ~examined THEN EMPTY_EXEC_HASH
                  ELSE IF v = "WaitForExecutionPayload" THEN in.exec
                  ELSE IF v = "WaitForExecutionFinality"
                          /\ in.fin # EmptyCheckpoint
                  THEN in.finExec
                  ELSE EMPTY_EXEC_HASH,
         version |-> IF examined /\ v = "WaitForFork" THEN in.version
                     ELSE "none"]

\* ------------------------------------------------- completion predicates
\* Variants of HeadsLoop: no comparison at all, and the comparison negated.
RECURSIVE HeadsLoopNoMismatch(_, _)
HeadsLoopNoMismatch(hs, head) ==
    IF hs = <<>> THEN [ok |-> TRUE, head |-> head]
    ELSE IF head = EMPTY_TREE_ROOT
    THEN HeadsLoopNoMismatch(Tail(hs), Head(hs))
    ELSE HeadsLoopNoMismatch(Tail(hs), head)

RECURSIVE HeadsLoopInverted(_, _)
HeadsLoopInverted(hs, head) ==
    IF hs = <<>> THEN [ok |-> TRUE, head |-> head]
    ELSE IF head = EMPTY_TREE_ROOT
    THEN HeadsLoopInverted(Tail(hs), Head(hs))
    ELSE IF head = Head(hs) THEN [ok |-> FALSE, head |-> head]
    ELSE HeadsLoopInverted(Tail(hs), head)

\* WaitForSync: the loop over the closed heads channel.
RECURSIVE HeadsLoop(_, _)
HeadsLoop(hs, head) ==
    IF hs = <<>> THEN [ok |-> TRUE, head |-> head]
    ELSE IF head = EMPTY_TREE_ROOT THEN HeadsLoop(Tail(hs), Head(hs))
    ELSE IF head # Head(hs) THEN [ok |-> FALSE, head |-> head]
    ELSE HeadsLoop(Tail(hs), head)

HeadsConverged(hs) ==
    LET l == HeadsLoop(hs, EMPTY_TREE_ROOT)
    IN  l.ok /\ l.head # EMPTY_TREE_ROOT

HeadsResult(hs) == HeadsLoop(hs, EMPTY_TREE_ROOT).head

\* Variant of ResultNode: the last node instead of the first.
ResultNodeLast(rs) == Cardinality(DOMAIN rs) - 1

\* The node whose result the AllDone-based waits hand back.
ResultNode(rs) == 0

\* Value returned when the completion predicate of variant v holds, or
\* NoReturn when the loop goes on to the next tick.
\* Variant of SlotsReached: one slot more is waited for.
SlotsExceeded(passed, wanted) == passed > wanted

SlotsReached(passed, wanted) == passed >= wanted

Completion(v, rs, hs, passed, wanted) ==
    CASE v = "WaitSlots" ->
             IF SlotsReached(passed, wanted)
             THEN [kind |-> "ok", node |-> NoNode, val |-> NilValue]
             ELSE NoReturn
      [] v = "WaitForFork" ->
             IF AllDone(rs)
             THEN [kind |-> "ok", node |-> NoNode, val |-> NilValue]
             ELSE NoReturn
      [] v \in {"WaitForFinality", "WaitForExecutionFinality",
                "WaitForCurrentEpochFinalization"} ->
             IF AllDone(rs) /\ rs[ResultNode(rs)].result.kind = "checkpoint"
             THEN [kind |-> "ok", node |-> ResultNode(rs),
                   val |-> rs[ResultNode(rs)].result]
             ELSE NoReturn
      [] v = "WaitForExecutionPayload" ->
             IF AllDone(rs) /\ rs[ResultNode(rs)].result.kind = "hash"
             THEN [kind |-> "ok", node |-> ResultNode(rs),
                   val |-> rs[ResultNode(rs)].result]
             ELSE NoReturn
      [] v = "WaitForSync" ->
             IF HeadsConverged(hs)
             THEN [kind |-> "ok", node |-> NoNode,
                   val |-> RootValue(HeadsResult(hs))]
             ELSE NoReturn

\* Variant of AfterCheckError: the error is dropped.
AfterCheckErrorIgnored(e, completion) == completion

\* What the loop does with the outcome of CheckError.
\* Variant of AfterCheckError: the completion predicate is looked at first.
AfterCompletion(e, completion) ==
    IF completion.kind # "none" THEN completion
    ELSE IF e.kind # "nil"
    THEN [kind |-> e.kind, node |-> e.node, val |-> NilValue]
    ELSE completion

AfterCheckError(e, completion) ==
    IF e.kind # "nil"
    THEN [kind |-> e.kind, node |-> e.node, val |-> NilValue]
    ELSE completion

\* ------------------------------------------------------------------ Init
NoProbeCall ==
    [v |-> "WaitSlots", cs |-> 0, maxMissed |-> 0, target |-> 0, errs |-> 0,
     in |-> DefaultInput]
NoProbeOut == [computed |-> FALSE, slot |-> EmptyResult]

ProbeIdle ==
    /\ probeCall = NoProbeCall
    /\ probeOut = NoProbeOut

NoHelperCall == HealthIdle /\ TimeoutsIdle /\ ProbeIdle

GenesisTimes == {0 - MaxGenesisAge, MaxGenesisDelay}

InitWait ==
    /\ variant \in Variants
    /\ runningNodes \in 0..MaxNodes
    \* test configuration; at least 1
    /\ maxConsecutiveErrorsOnWaits = MaxErrBudget
    /\ slots \in Only(variant, {"WaitSlots"}, 0..MaxSlotsArg, 0)
    /\ maxMissedSlots \in Only(variant, {"WaitSlots"}, {0, MaxMissedSlots}, 0)
    /\ genesisTime \in GenesisTimes
    /\ epochToBeFinalized =
           IF variant = "WaitForCurrentEpochFinalization"
           THEN SlotToEpoch(TimeToSlot(0, genesisTime))
           ELSE 0
    /\ clock = 0
    /\ tickPending = FALSE
    /\ pendingTim = 0
    /\ cancelled = FALSE
    /\ clockSlot = 0
    /\ results = makeResults(runningNodes)
    /\ probe = [i \in Nodes |-> "idle"]
    /\ heads = <<>>
    /\ slotsPassed = 0
    /\ ttdReached = FALSE
    \* executionClient = runningNodes[0].ExecutionClient panics on an
    \* empty node list
    /\ IF variant = "WaitForExecutionPayload" /\ runningNodes = 0
       THEN /\ ctrl = "returned"
            /\ ret = [kind |-> "panic", node |-> NoNode, val |-> NilValue]
       ELSE /\ ctrl = "select"
            /\ ret = NoReturn
    /\ obs = [i \in Nodes |-> NoObs]
    /\ errRun = [i \in Nodes |-> 0]
    /\ cancelInFlight = FALSE
    /\ okTicks = 0
    /\ tdQuery = "none"

Init == InitWait /\ NoHelperCall

\* --------------------------------------------------------------- actions
\* The runtime delivers a tick to timer.C every slotDuration; a tick that
\* finds the one-element buffer full is dropped.  A controller that sits in
\* select with a tick buffered takes it (or ctx.Done()) before a whole slot
\* goes by, so ticks are only dropped while it is blocked in wg.Wait().
TickerFire ==
    /\ ctrl # "returned"
    /\ ~tickPending \/ ctrl = "wait"
    /\ clock < MaxClock
    /\ clock' = clock + SECONDS_PER_SLOT
    /\ IF tickPending
       THEN UNCHANGED <<tickPending, pendingTim>>
       ELSE tickPending' = TRUE /\ pendingTim' = clock + SECONDS_PER_SLOT
    /\ UNCHANGED <<helperVars, okTicks, tdQuery, variant, runningNodes, maxConsecutiveErrorsOnWaits, slots,
                   maxMissedSlots, genesisTime, epochToBeFinalized, cancelled,
                   ctrl, clockSlot, results, probe, heads, slotsPassed,
                   ttdReached, ret, obs, errRun, cancelInFlight>>

\* The caller cancels ctx, or its deadline passes.
Cancel ==
    /\ ~cancelled
    /\ ctrl # "returned"
    /\ cancelled' = TRUE
    /\ cancelInFlight' =
           (ctrl = "wait" /\ \E i \in Nodes : probe[i] = "running")
    /\ UNCHANGED <<helperVars, okTicks, tdQuery, variant, runningNodes, maxConsecutiveErrorsOnWaits, slots,
                   maxMissedSlots, genesisTime, epochToBeFinalized, clock,
                   tickPending, pendingTim, ctrl, clockSlot, results, probe,
                   heads, slotsPassed, ttdReached, ret, obs, errRun>>

\* select: case <-ctx.Done()
SelectDone ==
    /\ ctrl = "select"
    /\ cancelled
    /\ ctrl' = "returned"
    /\ ret' = [kind |-> "ctx", node |-> NoNode, val |-> NilValue]
    /\ UNCHANGED <<helperVars, okTicks, tdQuery, variant, runningNodes, maxConsecutiveErrorsOnWaits, slots,
                   maxMissedSlots, genesisTime, epochToBeFinalized, clock,
                   tickPending, pendingTim, cancelled, clockSlot, results,
                   probe, heads, slotsPassed, ttdReached, obs, errRun, cancelInFlight>>

\* Variant of BeforeFirstSlot: the gate opens at genesis itself.
BeforeGenesis(tim) == tim < genesisTime

BeforeFirstSlot(tim) == tim < genesisTime + SECONDS_PER_SLOT

\* Outcomes of executionClient.TotalDifficultyByNumber against the TTD.
\* Variant of TdOutcomes: the total difficulty is queried in every tick.
TdOutcomesEveryTick ==
    IF variant = "WaitForExecutionPayload"
    THEN {"error", "below", "reached"}
    ELSE {"skipped"}

TdOutcomes ==
    IF variant = "WaitForExecutionPayload" /\ ~ttdReached
    THEN {"error", "below", "reached"}
    ELSE {"skipped"}

\* results.Clear() at the top of a probing tick
\* Variants of StartTick: the slots are left as they are, or made anew.
StartTickNoClear(rs) == rs

StartTickRemake(rs) == makeResults(Cardinality(DOMAIN rs))

StartTick(rs) == Clear(rs)

\* select: case tim := <-timer.C, up to wg.Wait()
SelectTick ==
    /\ ctrl = "select"
    /\ tickPending
    /\ tickPending' = FALSE
    /\ \E td \in TdOutcomes :
         IF BeforeFirstSlot(pendingTim) \/ td = "below"
         THEN /\ UNCHANGED <<ctrl, clockSlot, results, probe, heads,
                             ttdReached, obs>>
              /\ tdQuery' = IF BeforeFirstSlot(pendingTim) THEN tdQuery
                            ELSE td
         ELSE /\ ttdReached' = (ttdReached \/ td = "reached")
              /\ tdQuery' = td
              /\ clockSlot' = TimeToSlot(clock, genesisTime)
              /\ results' = StartTick(results)
              /\ heads' = <<>>
              /\ probe' = [i \in Nodes |-> "running"]
              /\ obs' = [i \in Nodes |-> NoObs]
              /\ ctrl' = "wait"
    /\ UNCHANGED <<helperVars, okTicks, variant, runningNodes, maxConsecutiveErrorsOnWaits, slots,
                   maxMissedSlots, genesisTime, epochToBeFinalized, clock,
                   pendingTim, cancelled, slotsPassed, ret, errRun,
                   cancelInFlight>>

\* The goroutine of node i runs its queries, fills its slot and returns.
ProbeReturn(i) ==
    /\ probe[i] = "running"
    /\ \E in \in ProbeInputs(variant, clockSlot) :
         LET r == RunProbe(variant, results[i], in, clockSlot,
                           maxMissedSlots, epochToBeFinalized)
             \* what this run of the probe itself reports
             own == RunProbe(variant, EmptyResult, in, clockSlot,
                             maxMissedSlots, epochToBeFinalized)
         IN  /\ results' = [results EXCEPT ![i] = r]
             /\ heads' = IF variant = "WaitForSync" /\ SendsHead(in)
                         THEN Append(heads, in.root)
                         ELSE heads
             /\ obs' = [obs EXCEPT ![i] =
                          Observed(variant, in, own, clockSlot,
                                   LagThreshold(variant, maxMissedSlots))]
             /\ errRun' = [errRun EXCEPT ![i] =
                              IF own.err # "nil" THEN @ + 1 ELSE 0]
    /\ probe' = [probe EXCEPT ![i] = "returned"]
    /\ UNCHANGED <<helperVars, okTicks, tdQuery, variant, runningNodes, maxConsecutiveErrorsOnWaits, slots,
                   maxMissedSlots, genesisTime, epochToBeFinalized, clock,
                   tickPending, pendingTim, cancelled, ctrl, clockSlot,
                   slotsPassed, ttdReached, ret, cancelInFlight>>

\* Variant of WgWait: one returned goroutine is enough.
WgWaitAny == \E i \in Nodes : probe[i] = "returned"

\* wg.Wait() returns once every goroutine of the tick called wg.Done()
WgWait == \A i \in Nodes : probe[i] = "returned"

\* From wg.Wait() to the end of the loop body.
Evaluate ==
    /\ ctrl = "wait"
    /\ WgWait
    /\ LET rs == RecordAll(results)
           passed == IF variant = "WaitSlots" THEN slotsPassed + 1
                     ELSE slotsPassed
           out == AfterCheckError(
                      CheckError(rs, maxConsecutiveErrorsOnWaits),
                      Completion(variant, rs, heads, passed, slots))
       IN  /\ results' = rs
           /\ ret' = out
           /\ ctrl' = IF out.kind = "none" THEN "select" ELSE "returned"
           /\ slotsPassed' =
                  IF CheckError(rs, maxConsecutiveErrorsOnWaits).kind = "nil"
                  THEN passed ELSE slotsPassed
           /\ okTicks' =
                  IF variant = "WaitSlots"
                     /\ CheckError(rs, maxConsecutiveErrorsOnWaits).kind = "nil"
                  THEN okTicks + 1 ELSE okTicks
    /\ UNCHANGED <<helperVars, tdQuery, variant, runningNodes, maxConsecutiveErrorsOnWaits, slots,
                   maxMissedSlots, genesisTime, epochToBeFinalized, clock,
                   tickPending, pendingTim, cancelled, clockSlot, probe,
                   heads, ttdReached, obs, errRun, cancelInFlight>>

Next ==
    \/ TickerFire
    \/ Cancel
    \/ SelectDone
    \/ SelectTick
    \/ \E i \in Nodes : ProbeReturn(i)
    \/ Evaluate

Spec == Init /\ [][Next]_vars

\* One wait function at a time.
InitFinality == Init /\ variant = "WaitForFinality"
SpecFinality == InitFinality /\ [][Next]_vars

\* The runtime keeps the ticker firing, a select with a tick ready goes on,
\* every goroutine that was started returns, and wg.Wait() returns once all
\* of them have.
Fairness ==
    /\ WF_vars(TickerFire)
    /\ WF_vars(SelectTick)
    /\ \A i \in 0..(MaxNodes - 1) : WF_vars(i \in Nodes /\ ProbeReturn(i))
    /\ WF_vars(Evaluate)
SpecFinalityFair == InitFinality /\ [][Next]_vars /\ Fairness

InitCurrentEpoch == Init /\ variant = "WaitForCurrentEpochFinalization"
SpecCurrentEpoch == InitCurrentEpoch /\ [][Next]_vars

InitExecution ==
    Init /\ variant \in {"WaitForExecutionFinality", "WaitForExecutionPayload"}
SpecExecution == InitExecution /\ [][Next]_vars

InitFork == Init /\ variant = "WaitForFork"
SpecFork == InitFork /\ [][Next]_vars

InitSlots == Init /\ variant = "WaitSlots"
SpecSlots == InitSlots /\ [][Next]_vars

InitPayload == Init /\ variant = "WaitForExecutionPayload"
SpecPayload == InitPayload /\ [][Next]_vars

InitSync == Init /\ variant = "WaitForSync"
SpecSync == InitSync /\ [][Next]_vars

\* ------------------------------------------------- the helper functions
\* No wait call is under way while a helper function is examined.
NoWaitCall ==
    /\ InitWait
    /\ variant = "WaitSlots" /\ runningNodes = 0
    /\ slots = 0 /\ maxMissedSlots = 0 /\ genesisTime = MaxGenesisDelay

waitVars ==
    <<variant, runningNodes, maxConsecutiveErrorsOnWaits, slots,
      maxMissedSlots, genesisTime, epochToBeFinalized, clock, tickPending,
      pendingTim, cancelled, ctrl, clockSlot, results, probe, heads,
      slotsPassed, ttdReached, ret, obs, errRun, cancelInFlight, okTicks,
      tdQuery>>

InitHealth ==
    /\ NoWaitCall
    /\ TimeoutsIdle
    /\ ProbeIdle
    /\ health = NoHealth
    /\ legacyHealth = NoLegacyHealth
    \* GetHealth: a participation registry (Altair and after), or balances
    /\ \/ participation \in Registries /\ balances = NoBalances
       \/ participation = <<>> /\ balances \in BalancePairs

CallCalcHealth ==
    /\ balances = NoBalances
    /\ ~health.computed
    /\ health' = [computed |-> TRUE, value |-> calcHealth(participation)]
    /\ UNCHANGED <<waitVars, timeoutVars, probeVars, participation, balances,
                   legacyHealth>>

CallLegacyCalcHealth ==
    /\ balances # NoBalances
    /\ ~legacyHealth.computed
    /\ legacyHealth' = legacyCalcHealth(balances.before, balances.after)
    /\ UNCHANGED <<waitVars, timeoutVars, probeVars, participation, balances,
                   health>>

NextHealth == CallCalcHealth \/ CallLegacyCalcHealth
SpecHealth == InitHealth /\ [][NextHealth]_vars

InitTimeouts ==
    /\ NoWaitCall
    /\ HealthIdle
    /\ ProbeIdle
    /\ timing \in [spec : Presets, n : 0..MaxTimeoutArg]
    /\ timeouts = NoTimeouts

CallEpochTimeoutContext ==
    /\ timeouts.EpochTimeoutContext = NotComputed
    /\ timeouts' = [timeouts EXCEPT !.EpochTimeoutContext =
                        EpochTimeoutContext(timing.spec, timing.n)]
    /\ UNCHANGED <<waitVars, healthVars, probeVars, timing>>

CallSlotTimeoutContext ==
    /\ timeouts.SlotTimeoutContext = NotComputed
    /\ timeouts' = [timeouts EXCEPT !.SlotTimeoutContext =
                        SlotTimeoutContext(timing.spec, timing.n)]
    /\ UNCHANGED <<waitVars, healthVars, probeVars, timing>>

CallEpochsTimeout ==
    /\ timeouts.EpochsTimeout = NotComputed
    /\ timeouts' = [timeouts EXCEPT !.EpochsTimeout =
                        EpochsTimeout(timing.spec, timing.n)]
    /\ UNCHANGED <<waitVars, healthVars, probeVars, timing>>

CallSlotsTimeout ==
    /\ timeouts.SlotsTimeout = NotComputed
    /\ timeouts' = [timeouts EXCEPT !.SlotsTimeout =
                        SlotsTimeout(timing.spec, timing.n)]
    /\ UNCHANGED <<waitVars, healthVars, probeVars, timing>>

NextTimeouts ==
    \/ CallEpochTimeoutContext
    \/ CallSlotTimeoutContext
    \/ CallEpochsTimeout
    \/ CallSlotsTimeout
SpecTimeouts == InitTimeouts /\ [][NextTimeouts]_vars

\* --------------------------------------------------- a probe taken alone
\* One run of the goroutine of one node, on the slot the tick has cleared,
\* followed by the bookkeeping of its error counter.
ProbeCalls ==
    {c \in [v : Variants, cs : 0..MaxProbeSlot, maxMissed : 0..MaxMissedSlots,
            target : 0..MaxEpoch, errs : 0..(MaxErrBudget - 1),
            in : UNION {AllProbeInputs(v, cs) :
                           v \in Variants, cs \in 0..MaxProbeSlot}] :
        /\ c.in \in AnyProbeInputs(c.v, c.cs)
        /\ c.v # "WaitSlots" => c.maxMissed = 0
        /\ c.v # "WaitForCurrentEpochFinalization" => c.target = 0}

InitProbe ==
    /\ NoWaitCall
    /\ HealthIdle
    /\ TimeoutsIdle
    /\ probeCall \in ProbeCalls
    /\ probeOut = NoProbeOut

ProbeSlot(c) == ClearResult([EmptyResult EXCEPT !.consecutiveErrors = c.errs])

RunProbeAlone ==
    /\ ~probeOut.computed
    /\ probeOut' =
           [computed |-> TRUE,
            slot |-> Record(RunProbe(probeCall.v, ProbeSlot(probeCall),
                                     probeCall.in, probeCall.cs,
                                     probeCall.maxMissed, probeCall.target))]
    /\ UNCHANGED <<waitVars, healthVars, timeoutVars, probeCall>>

NextProbe == RunProbeAlone
SpecProbe == InitProbe /\ [][NextProbe]_vars

\* ------------------------------------------------------------ properties
\* The tick of the current results has been evaluated: the controller is
\* past wg.Wait() and has not started another tick.
Evaluated == ctrl # "wait" /\ \A i \in Nodes : probe[i] = "returned"

HasFatal == \E i \in Nodes : results[i].fatal # "nil"

\* C1: if the probe of any node reports fatal in a tick, the wait call
\* returns the fatal error of a fatal node in that tick, whatever the other
\* nodes report (done, message, error, exhausted error budget) and whatever
\* the index of the fatal node.
FatalPrecedence ==
    (ctrl # "wait" /\ HasFatal) =>
        /\ ctrl = "returned"
        /\ ret.kind = "fatal"
        /\ results[ret.node].fatal # "nil"

\* A fatal node wins over a lower-indexed node whose error budget ran out
\* in the same tick.
FatalPrecedenceWitness ==
    /\ ret.kind = "fatal"
    /\ \E j \in Nodes :
         /\ j < ret.node
         /\ results[j].err # "nil"
         /\ results[j].consecutiveErrors >= maxConsecutiveErrorsOnWaits

\* C2: the wait call fails with "node unresponsive" exactly in the tick in
\* which a node's run of consecutive recoverable-error ticks reaches
\* maxConsecutiveErrors: not in an earlier tick of the run, and not later.
ErrorBudgetEscalation ==
    /\ ret.kind = "unresponsive" =>
           errRun[ret.node] = maxConsecutiveErrorsOnWaits
    /\ (Evaluated /\ ~HasFatal
            /\ \E i \in Nodes : errRun[i] >= maxConsecutiveErrorsOnWaits) =>
           ret.kind = "unresponsive"
    /\ (Evaluated /\ ret.kind = "none") =>
           \A i \in Nodes : errRun[i] < maxConsecutiveErrorsOnWaits

\* The run went through a tolerated error tick before the escalating one.
ErrorBudgetEscalationWitness ==
    /\ ret.kind = "unresponsive"
    /\ maxConsecutiveErrorsOnWaits >= 2
    /\ errRun[ret.node] = maxConsecutiveErrorsOnWaits

\* C3: the consecutive-error counter of a node survives Clear and equals
\* the length of the node's current run of recoverable-error ticks: a tick
\* without a recoverable error resets it to 0, so only
\* maxConsecutiveErrors errors in a row escalate.
CounterReset ==
    /\ \A i \in Nodes :
         (ctrl # "wait" \/ probe[i] = "running") =>
             results[i].consecutiveErrors = errRun[i]
    /\ ret.kind = "unresponsive" =>
           errRun[ret.node] >= maxConsecutiveErrorsOnWaits

\* A node with an error in the tick before reports no error in this tick:
\* its counter came through Clear and the evaluation is about to reset it.
CounterResetWitness ==
    \E i \in Nodes :
        /\ ctrl = "wait"
        /\ probe[i] = "returned"
        /\ results[i].err = "nil"
        /\ results[i].fatal = "nil"
        /\ results[i].consecutiveErrors > 0
        /\ errRun[i] = 0

CancellationPriority ==
    [][~(cancelled /\ \E i \in Nodes :
            probe[i] # "running" /\ probe'[i] = "running")]_vars

\* C6: a wait call whose ctx was cancelled while probes were in flight
\* returns the ctx error.
CancelWhileProbing ==
    (cancelInFlight /\ ctrl = "returned") => ret.kind = "ctx"

\* C7: whenever the controller is anywhere but blocked in wg.Wait()
\* (evaluating the tick, selecting, launching the next tick, returned), no
\* probe is running: the tick is evaluated after all its probes returned
\* and the next tick's probes are launched after the evaluation.
JoinBarrier ==
    ctrl # "wait" => \A i \in Nodes : probe[i] # "running"

\* The controller is held at the barrier by a probe that is still running
\* while another probe of the tick has already returned.
JoinBarrierWitness ==
    /\ ctrl = "wait"
    /\ \E i, j \in Nodes : probe[i] = "returned" /\ probe[j] = "running"

DeliveredHead(i) == obs[i].probed /\ obs[i].head # NoHead

\* C8: WaitForSync returns a head only in a tick in which every running
\* node delivered a head, every head is non-empty and all are equal.
SyncRequiresEveryNode ==
    (variant = "WaitForSync" /\ ret.kind = "ok") =>
        \A i \in Nodes :
            /\ DeliveredHead(i)
            /\ obs[i].head # EMPTY_TREE_ROOT
            /\ RootValue(obs[i].head) = ret.val

Diverged ==
    \E i, j \in Nodes :
        /\ DeliveredHead(i) /\ obs[i].head # EMPTY_TREE_ROOT
        /\ DeliveredHead(j) /\ obs[j].head # EMPTY_TREE_ROOT
        /\ obs[i].head # obs[j].head

Agreed ==
    /\ runningNodes >= 1
    /\ \A i \in Nodes :
         /\ DeliveredHead(i)
         /\ obs[i].head # EMPTY_TREE_ROOT
         /\ obs[i].head = obs[0].head

\* C10: a WaitForSync tick in which all N >= 1 nodes deliver the same
\* non-empty head R returns (R, nil) in that tick.
HeadAgreementAccepted ==
    (variant = "WaitForSync" /\ Evaluated /\ Agreed) =>
        /\ ctrl = "returned"
        /\ ret.kind = "ok"
        /\ ret.val = RootValue(obs[0].head)

\* Two nodes agree on the head and neither has reached finality.
HeadAgreementWitness ==
    /\ variant = "WaitForSync"
    /\ ret.kind = "ok"
    /\ runningNodes >= 2
    /\ \A i \in Nodes : ~results[i].done

\* --------------------------------------------------------- head-lag rule
ReturnedFatalOf(i) ==
    ctrl = "returned" /\ ret.kind = "fatal" /\ ret.node <= i

\* C11 (as stated): whenever the head slot a probe saw satisfies
\* clockSlot - slot >= threshold, for every threshold including 0, the
\* node's slot carries a fatal error and the wait returns a fatal error in
\* that tick.
HeadLagFatalAnyThreshold ==
    \A i \in Nodes :
        obs[i].lag \in {"level", "behind"} =>
            /\ results[i].fatal # "nil"
            /\ Evaluated => ReturnedFatalOf(i)

\* C11 (amended): whenever the clock slot is ahead of the head slot a probe
\* saw and clockSlot - slot >= threshold, the node's slot carries a fatal
\* error and the wait returns a fatal error (of that node or of a node
\* before it) in the evaluation of that tick.
HeadLagFatal ==
    \A i \in Nodes :
        obs[i].lag = "behind" =>
            /\ results[i].fatal # "nil"
            /\ Evaluated => ReturnedFatalOf(i)

\* A wait for slots with maxMissedSlots = 0 returned the fatal error of a
\* node whose head was behind the clock.
HeadLagFatalWitness ==
    /\ variant = "WaitSlots" /\ maxMissedSlots = 0
    /\ ctrl = "returned" /\ ret.kind = "fatal"
    /\ obs[ret.node].lag = "behind"

\* ------------------------------------------------------------ genesis gate
\* The loop takes the buffered tick out of timer.C.
TakesTick == ctrl = "select" /\ tickPending /\ ~tickPending'

\* C12: a tick whose time is before genesisTime + slot duration launches no
\* probe, leaves the result set, its counters and slotsPassed alone and
\* keeps the loop in its select; a tick at or after that time starts the
\* probes (in WaitForExecutionPayload once the TTD gate lets it).
GenesisGate ==
    [][TakesTick =>
         IF pendingTim < genesisTime + SECONDS_PER_SLOT
         THEN UNCHANGED <<ctrl, results, probe, heads, slotsPassed, ret,
                          clockSlot, ttdReached>>
         ELSE variant # "WaitForExecutionPayload" =>
                  /\ ctrl' = "wait"
                  /\ \A i \in Nodes : probe'[i] = "running"]_vars

\* The loop has taken a tick from before the first slot and is back in its
\* select with no probe ever launched.
GenesisGateWitness ==
    /\ runningNodes >= 1 /\ ctrl = "select" /\ ~tickPending /\ ~cancelled
    /\ clock > 0 /\ clock < genesisTime + SECONDS_PER_SLOT
    /\ \A i \in Nodes : probe[i] = "idle"

\* --------------------------------------------------------------- TTD gate
\* C13 (as stated): in WaitForExecutionPayload no probe is launched in any
\* tick before the execution client has been seen at or above the terminal
\* total difficulty, the ticks in which the total-difficulty query fails
\* included.
NoProbeBeforeTTD ==
    (variant = "WaitForExecutionPayload" /\ ~ttdReached) =>
        \A i \in Nodes : probe[i] = "idle"

\* --------------------------------------------------------- empty node set
AllDoneWaits ==
    {"WaitForFork", "WaitForFinality", "WaitForExecutionFinality",
     "WaitForCurrentEpochFinalization", "WaitForExecutionPayload"}

\* C14 (as stated): with zero running nodes a wait that completes on
\* AllDone never returns success and never fails on its own account: it
\* ends only by returning the error of the context.
EmptySetEndsByContext ==
    (runningNodes = 0 /\ variant \in AllDoneWaits /\ ctrl = "returned") =>
        ret.kind = "ctx"

\* ------------------------------------------------------ errors are final
\* wg.Wait() returns and the loop evaluates the tick.
Evaluates == ctrl = "wait" /\ ctrl' # "wait"

ReturnedError == ctrl = "returned" /\ ret.kind \in {"fatal", "unresponsive"}

\* C15: when CheckError is non-nil in the evaluation of a tick, the wait
\* returns that error in that step whatever the completion predicate says
\* and without counting the slot, and once it has returned an error nothing
\* changes any more: no probe is launched and no result slot is written.
ErrorIsTerminal ==
    [][(Evaluates =>
            LET e == CheckError(results', maxConsecutiveErrorsOnWaits)
            IN  e.kind # "nil" =>
                    /\ ctrl' = "returned"
                    /\ ret' = [kind |-> e.kind, node |-> e.node,
                               val |-> NilValue]
                    /\ slotsPassed' = slotsPassed)
       /\ (ReturnedError => UNCHANGED <<results, probe, ctrl, ret>>)]_vars

\* WaitForSync returned the error of a node that spent its budget in a tick
\* whose delivered heads agree, i.e. whose completion predicate holds.
ErrorIsTerminalWitness ==
    /\ variant = "WaitForSync" /\ ReturnedError
    /\ ret.kind = "unresponsive"
    /\ HeadsConverged(heads)

\* ------------------------------------------- current-epoch finalization
\* The epoch of the wall clock when the call began (clock 0).
StartEpoch ==
    IF 0 < genesisTime THEN 0
    ELSE ((0 - genesisTime) \div SECONDS_PER_SLOT) \div SLOTS_PER_EPOCH

ReturnedOk == ctrl = "returned" /\ ret.kind = "ok"

\* C16: WaitForCurrentEpochFinalization returns a checkpoint only from a
\* tick in which every running node reported a non-empty finalized
\* checkpoint of an epoch >= the epoch current when the call began, and the
\* checkpoint returned is non-empty and of such an epoch.
CurrentEpochFinalized ==
    (variant = "WaitForCurrentEpochFinalization" /\ ReturnedOk) =>
        /\ runningNodes >= 1
        /\ \A i \in Nodes :
               /\ obs[i].fin # EmptyCheckpoint
               /\ obs[i].fin.epoch >= StartEpoch
        /\ ret.val.kind = "checkpoint"
        /\ ret.val.cp # EmptyCheckpoint
        /\ ret.val.cp.epoch >= StartEpoch

\* Two nodes, a call begun in epoch 1 or later, and a checkpoint returned.
CurrentEpochFinalizedWitness ==
    /\ variant = "WaitForCurrentEpochFinalization" /\ ReturnedOk
    /\ runningNodes = 2 /\ StartEpoch >= 1

Scaled(f) == (f.num * 10000) \div f.den

RECURSIVE Total(_, _)
Total(p, I) ==
    IF I = {} THEN 0
    ELSE LET i == CHOOSE j \in I : TRUE IN p[i] + Total(p, I \ {i})

\* C19 (as stated): the health score of the registry [7,7,7,0] is about
\* 0.7143 (7143 ten-thousandths, give or take one).
HealthOfExampleAsStated ==
    (health.computed /\ participation = <<7, 7, 7, 0>>) =>
        /\ health.value.den > 0
        /\ Scaled(health.value) \in 7142..7144

\* C19 (amended): the health score of a non-empty registry is the mean of
\* its values divided by 7, in ten-thousandths sum * 10000 / (len * 7); for
\* the registry [7,7,7,0] that is 0.75.
HealthIsMeanOverMaxScore ==
    (health.computed /\ participation # <<>>) =>
        /\ health.value.den > 0
        /\ Scaled(health.value) =
               (Total(participation, DOMAIN participation) * 10000)
                   \div (Len(participation) * 7)
        /\ participation = <<7, 7, 7, 0>> => Scaled(health.value) = 7500

\* calcHealth has been applied to the registry [7,7,7,0].
HealthIsMeanOverMaxScoreWitness ==
    health.computed /\ participation = <<7, 7, 7, 0>>

\* --------------------------------------------------------------- timeouts
Computed(f) == f # NotComputed

\* C20: EpochTimeoutContext(n) lasts (SLOTS_PER_EPOCH * n + 2) *
\* SECONDS_PER_SLOT seconds and SlotTimeoutContext(n) lasts (n + 2) *
\* SECONDS_PER_SLOT seconds; EpochsTimeout(n) and SlotsTimeout(n) fire after
\* SLOTS_PER_EPOCH * n * SECONDS_PER_SLOT and n * SECONDS_PER_SLOT seconds;
\* each deadline exceeds its timer by exactly 2 * SECONDS_PER_SLOT, and
\* EpochTimeoutContext(2) with 32 slots per epoch of 12 seconds is 792.
DeadlinesAddTwoSlots ==
    LET spe == timing.spec.SLOTS_PER_EPOCH
        sps == timing.spec.SECONDS_PER_SLOT
        n == timing.n
        t == timeouts
    IN  /\ Computed(t.EpochTimeoutContext) =>
               /\ t.EpochTimeoutContext = (spe * n + 2) * sps
               /\ (spe = 32 /\ sps = 12 /\ n = 2) =>
                      t.EpochTimeoutContext = 792
        /\ Computed(t.SlotTimeoutContext) =>
               t.SlotTimeoutContext = (n + 2) * sps
        /\ Computed(t.EpochsTimeout) => t.EpochsTimeout = spe * n * sps
        /\ Computed(t.SlotsTimeout) => t.SlotsTimeout = n * sps
        /\ (Computed(t.EpochTimeoutContext) /\ Computed(t.EpochsTimeout)) =>
               t.EpochTimeoutContext - t.EpochsTimeout = 2 * sps
        /\ (Computed(t.SlotTimeoutContext) /\ Computed(t.SlotsTimeout)) =>
               t.SlotTimeoutContext - t.SlotsTimeout = 2 * sps

\* All four helpers have been applied to n = 2 with 32 slots per epoch of 12
\* seconds.
DeadlinesAddTwoSlotsWitness ==
    /\ timing = [spec |-> [SLOTS_PER_EPOCH |-> 32, SECONDS_PER_SLOT |-> 12],
                 n |-> 2]
    /\ \A f \in DOMAIN timeouts : Computed(timeouts[f])

\* ----------------------------------------------------- outcome of a probe
Outcomes(r) ==
    {o \in {"err", "fatal", "done"} :
        \/ o = "err" /\ r.err # "nil"
        \/ o = "fatal" /\ r.fatal # "nil"
        \/ o = "done" /\ r.done}

\* C21: once the probe of a node has returned, its slot holds at most one of
\* a recoverable error, a fatal error and done, and a slot with an error of
\* either kind has an empty message and an empty result value.
OutcomeExclusive ==
    \A i \in Nodes :
        probe[i] = "returned" =>
            /\ Cardinality(Outcomes(results[i])) <= 1
            /\ (results[i].err # "nil" \/ results[i].fatal # "nil") =>
                   /\ results[i].msg = ""
                   /\ results[i].result = NilValue

\* In the second tick or later, one node's probe returned an error and the
\* other's returned done, the tick before having gone the other way round.
OutcomeExclusiveWitness ==
    /\ runningNodes = 2 /\ clock > SECONDS_PER_SLOT
    /\ probe[0] = "returned" /\ probe[1] = "returned"
    /\ results[0].err # "nil" /\ results[0].consecutiveErrors = 0
    /\ results[1].done /\ results[1].consecutiveErrors = 1

\* ------------------------------------------------- health is best effort
\* The slot the same call leaves behind when the health computation
\* succeeds.
SlotWithHealth(c) ==
    Record(RunProbe(c.v, ProbeSlot(c), [c.in EXCEPT !.healthErr = FALSE],
                    c.cs, c.maxMissed, c.target))

LegacyHealthIsScore ==
    legacyHealth.computed =>
        LET n == Len(balances.before)
            sumBefore == Total(balances.before, DOMAIN balances.before)
            sumAfter == Total(balances.after, DOMAIN balances.after)
            avgBefore == sumBefore \div n
            avgAfter == sumAfter \div n
        IN  /\ legacyHealth.kind \in {"finite", "+Inf"}
            /\ legacyHealth.diff = avgAfter - avgBefore
            /\ legacyHealth.wrapped = (avgAfter < avgBefore)
            /\ legacyHealth.divisor =
                   (((avgBefore * 64) \div IntegerSquareRoot(sumBefore))
                        \div 4) * 4

\* ---------------------------------------------------------- counted slots
SlotsNeeded == IF slots > 1 THEN slots ELSE 1

\* C24: WaitSlotsWithMaxMissedSlots returns nil in the evaluation in which
\* the number of evaluated ticks with a nil CheckError reaches max(slots, 1)
\* and not before; ticks with tolerated errors are counted, ticks before the
\* first slot are not, and neither the done flags nor the number of running
\* nodes matter.
SlotsAreCountedTicks ==
    variant = "WaitSlots" =>
        /\ ReturnedOk => okTicks = SlotsNeeded
        /\ ctrl # "returned" => okTicks < SlotsNeeded
        /\ okTicks = slotsPassed

\* A wait for two slots returned nil in a tick in which one of two nodes
\* failed a query, after a tick before the first slot that was not counted.
SlotsAreCountedTicksWitness ==
    /\ variant = "WaitSlots" /\ ReturnedOk
    /\ slots = 2 /\ runningNodes = 2
    /\ genesisTime > 0
    /\ \E i \in Nodes : results[i].consecutiveErrors = 1

\* -------------------------------------------------------- eventual return
NoNodeFailed ==
    /\ \A i \in Nodes : results[i].fatal = "nil"
    /\ ret.kind \notin {"fatal", "unresponsive"}

AllReportDone ==
    /\ runningNodes >= 1
    /\ \A i \in Nodes : probe[i] = "returned" /\ results[i].done

AheadNeverLags ==
    (probeOut.computed /\ probeCall.v # "WaitForSync"
        /\ probeCall.in.slot >= probeCall.cs) =>
        probeOut.slot.fatal = "nil"

\* A probe of WaitSlots with maxMissedSlots = 0 saw a head slot ahead of a
\* clock slot later than 0 and reported its status.
AheadNeverLagsWitness ==
    /\ probeOut.computed /\ probeCall.v = "WaitSlots"
    /\ probeCall.maxMissed = 0 /\ probeCall.cs > 0
    /\ HeadSlotSeen(probeCall.v, probeCall.in)
    /\ probeCall.in.slot > probeCall.cs
    /\ probeOut.slot.msg = "status"

====
